---- MODULE Spec2Model ----
(***************************************************************************)
(* Model of streamlit_app.py: the carbon-footprint simulator               *)
(* (simular_huella_carbono), the scenario block and run loop of the        *)
(* "Simular" button, the session cache st.session_state['df_sim'] and the  *)
(* rendering branch (grouped means, quick statistics, CSV export).         *)
(*                                                                         *)
(* Numbers are exact decimal fixed point: every emission, reduction and    *)
(* cost is an integer count of 1/Unit (1e-5), which represents exactly     *)
(* the 3- and 2-decimal roundings of the code and the products by 0.85,    *)
(* 0.65 and 15.  Binary floating-point error is not modelled.              *)
(* Accented strings of the source are written without the accent.          *)
(***************************************************************************)
EXTENDS Integers, Sequences, FiniteSets, TLC

\* ------------------------------------------------------------------ bounds
MaxDays == 2
MaxRuns == 2
MaxSeed == 1

\* ------------------------------------------------------- fixed-point units
Unit == 100000
RandDenom == 700000

\* ------------------------------------------------ the process-wide generator
\* random.random() yields RandTable[state + 1] / RandDenom and steps the state.
\* The table stands for the generator's output stream; it holds draws on both
\* sides of the class limits 40 and 90 and draws that round across them.
RandTable == <<99996, 600004, 4, 150000, 350000, 280000, 630000>>

RandStates == 0 .. (Len(RandTable) - 1)

RandomSeed(n) == n % Len(RandTable)

RandomNext(g) == (g + 1) % Len(RandTable)

\* a + (b - a) * random(); RandDenom is a multiple of Unit, so the product
\* (b - a) * r * Unit / RandDenom is taken as (b - a) * r / (RandDenom / Unit).
RandomUniform(a, b, g) == a * Unit + ((b - a) * RandTable[g + 1]) \div (RandDenom \div Unit)

\* The optional seed argument: None, or an integer.
None == <<>>

Some(n) == <<n>>

\* round(x, ndigits) of Python: to the nearest multiple of 10^-ndigits, ties to even.
Pow10(n) == IF n = 0 THEN 1 ELSE IF n = 1 THEN 10 ELSE IF n = 2 THEN 100 ELSE 1000

Round(x, ndigits) ==
    LET q == Unit \div Pow10(ndigits)
        lo == x \div q
        rem == x % q
    IN  IF 2 * rem < q THEN lo * q
        ELSE IF 2 * rem > q THEN (lo + 1) * q
        ELSE IF lo % 2 = 0 THEN lo * q ELSE (lo + 1) * q

\* ------------------------------------------------- simular_huella_carbono
actividades == <<"Transporte", "Energia", "Residuos", "Agua">>

RangoEmision(actividad) ==
    IF actividad = "Transporte" THEN <<30, 100>>
    ELSE IF actividad = "Energia" THEN <<50, 150>>
    ELSE IF actividad = "Residuos" THEN <<10, 60>>
    ELSE <<5, 30>>

RangoReduccion(actividad) ==
    IF actividad = "Transporte" THEN <<20, 40>>
    ELSE IF actividad = "Energia" THEN <<30, 60>>
    ELSE IF actividad = "Residuos" THEN <<10, 40>>
    ELSE <<5, 20>>

CostoPorTonelada == 15

\* The classification with 50 as the lower limit.
ClasificarUmbral50(emision) ==
    IF emision < 50 * Unit THEN "Bajo"
    ELSE IF emision <= 90 * Unit THEN "Medio"
    ELSE "Alto"

Clasificar(emision) ==
    IF emision < 40 * Unit THEN "Bajo"
    ELSE IF emision <= 90 * Unit THEN "Medio"
    ELSE "Alto"

\* The loop body, lines 20-46, with the generator in state g: two draws, the
\* cost, the class and the values appended to the five lists.
\* emision is the unrounded draw, which no column of the DataFrame keeps.
Fila(actividad, g) ==
    LET emision == RandomUniform(RangoEmision(actividad)[1], RangoEmision(actividad)[2], g)
        reduccion == RandomUniform(RangoReduccion(actividad)[1], RangoReduccion(actividad)[2],
                                   RandomNext(g))
        costo == emision * CostoPorTonelada
        categoria == Clasificar(emision)
    IN  [emision |-> emision,
         fila |-> [Actividad |-> actividad,
                   Emisiones_tCO2eq |-> Round(emision, 3),
                   Reduccion_Potencial |-> Round(reduccion, 2),
                   Costo_Ambiental_USD |-> Round(costo, 2),
                   Categoria_Impacto |-> categoria]]

\* if seed is not None and seed != 0: random.seed(int(seed))
Sembrar(seed, g) == IF seed # None /\ seed[1] # 0 THEN RandomSeed(seed[1]) ELSE g

\* The generator after n draws from state g (n applications of RandomNext).
RandomAdvance(g, n) == (g + n) % Len(RandTable)

\* The nested loops, lines 18-19: pass j (from 1) is day (j - 1) % dias of
\* activity number (j - 1) \div dias + 1, and 2 * (j - 1) draws precede it.
Pasadas(dias) == 1 .. (IF dias > 0 THEN Len(actividades) * dias ELSE 0)

\* The loops nested the other way round: days outside, activities inside.
simular_dia_mayor(dias, seed, g) ==
    LET g0 == Sembrar(seed, g)
        pasada == [j \in Pasadas(dias) |->
                     Fila(actividades[((j - 1) % Len(actividades)) + 1],
                          RandomAdvance(g0, 2 * (j - 1)))]
    IN  [rng |-> RandomAdvance(g0, 2 * Cardinality(Pasadas(dias))),
         filas |-> [j \in Pasadas(dias) |-> pasada[j].fila],
         emisiones |-> [j \in Pasadas(dias) |-> pasada[j].emision]]

\* Returns [rng: the generator afterwards, filas: the DataFrame, emisiones: the draws].
simular_huella_carbono(dias, seed, g) ==
    LET g0 == Sembrar(seed, g)
        pasada == [j \in Pasadas(dias) |->
                     Fila(actividades[((j - 1) \div dias) + 1],
                          RandomAdvance(g0, 2 * (j - 1)))]
    IN  [rng |-> RandomAdvance(g0, 2 * Cardinality(Pasadas(dias))),
         filas |-> [j \in Pasadas(dias) |-> pasada[j].fila],
         emisiones |-> [j \in Pasadas(dias) |-> pasada[j].emision]]

\* ------------------------------------------------------- scenario block
Base == "Base (sin medidas)"

Moderadas == "Medidas moderadas (aplica 15% reduccion)"

Fuertes == "Medidas fuertes (aplica 35% reduccion)"

Escenarios == {Base, Moderadas, Fuertes}

\* 0.85 and 0.65, in hundredths.
FactorModerado == 85

FactorFuerte == 65

\* df_run['Emisiones_tCO2eq'] *= factor; df_run['Costo_Ambiental_USD'] = emission * 15
Reescalar(fila, factor) ==
    LET emisiones == (fila.Emisiones_tCO2eq * factor) \div 100
    IN  [fila EXCEPT !.Emisiones_tCO2eq = emisiones,
                     !.Costo_Ambiental_USD = emisiones * CostoPorTonelada]

\* The scenario block with the reduction percentage taken as the multiplier.
AplicarEscenarioPorcentaje(df_run, escenario) ==
    IF escenario = Moderadas
    THEN [i \in DOMAIN df_run |-> Reescalar(df_run[i], 100 - FactorModerado)]
    ELSE IF escenario = Fuertes
    THEN [i \in DOMAIN df_run |-> Reescalar(df_run[i], 100 - FactorFuerte)]
    ELSE df_run

\* The scenario block followed by a reclassification of the rescaled emission.
AplicarEscenarioReclasifica(df_run, escenario) ==
    LET reclasifica(fila) == [fila EXCEPT !.Categoria_Impacto = Clasificar(fila.Emisiones_tCO2eq)]
    IN  IF escenario = Moderadas
        THEN [i \in DOMAIN df_run |-> reclasifica(Reescalar(df_run[i], FactorModerado))]
        ELSE IF escenario = Fuertes
        THEN [i \in DOMAIN df_run |-> reclasifica(Reescalar(df_run[i], FactorFuerte))]
        ELSE df_run

AplicarEscenario(df_run, escenario) ==
    IF escenario = Moderadas
    THEN [i \in DOMAIN df_run |-> Reescalar(df_run[i], FactorModerado)]
    ELSE IF escenario = Fuertes
    THEN [i \in DOMAIN df_run |-> Reescalar(df_run[i], FactorFuerte)]
    ELSE df_run

\* ----------------------------------------------------------------- run loop
\* The seed of a run when the widget's seed is never passed on.
SemillaNula(seed, run) == None

\* s = seed + run if seed != 0 else None
SemillaDeCorrida(seed, run) == IF seed # 0 THEN Some(seed + run) ELSE None

\* df_run['Corrida'] = run, the loop index without the + 1.
EtiquetarDesdeCero(df_run, corrida) ==
    [i \in DOMAIN df_run |->
        [Actividad |-> df_run[i].Actividad,
         Emisiones_tCO2eq |-> df_run[i].Emisiones_tCO2eq,
         Reduccion_Potencial |-> df_run[i].Reduccion_Potencial,
         Costo_Ambiental_USD |-> df_run[i].Costo_Ambiental_USD,
         Categoria_Impacto |-> df_run[i].Categoria_Impacto,
         Corrida |-> corrida - 1]]

\* df_run['Corrida'] = run + 1
Etiquetar(df_run, corrida) ==
    [i \in DOMAIN df_run |->
        [Actividad |-> df_run[i].Actividad,
         Emisiones_tCO2eq |-> df_run[i].Emisiones_tCO2eq,
         Reduccion_Potencial |-> df_run[i].Reduccion_Potencial,
         Costo_Ambiental_USD |-> df_run[i].Costo_Ambiental_USD,
         Categoria_Impacto |-> df_run[i].Categoria_Impacto,
         Corrida |-> corrida]]

\* st = [rng, lista_dfs, corridas]; corridas records, for each run, the seed it
\* was given, the DataFrame as simular_huella_carbono returned it and its draws.
RECURSIVE BucleCorridas(_, _, _, _, _, _)
BucleCorridas(run, num_corridas, dias, seed, escenario, st) ==
    IF run >= num_corridas THEN st
    ELSE LET s == SemillaDeCorrida(seed, run)
             sim == simular_huella_carbono(dias, s, st.rng)
             df_run == Etiquetar(AplicarEscenario(sim.filas, escenario), run + 1)
         IN  BucleCorridas(run + 1, num_corridas, dias, seed, escenario,
                [rng |-> sim.rng,
                 lista_dfs |-> Append(st.lista_dfs, df_run),
                 corridas |-> Append(st.corridas,
                                [seed |-> s, filas |-> sim.filas, emisiones |-> sim.emisiones])])

\* pd.concat(lista_dfs, ignore_index=True), for a non-empty list.
RECURSIVE Concat(_)
Concat(dfs) == IF dfs = <<>> THEN <<>> ELSE Head(dfs) \o Concat(Tail(dfs))

\* ------------------------------------------------------ auxiliary functions
\* The sum of a sequence, by halves.
RECURSIVE Suma(_)
Suma(xs) ==
    IF xs = <<>> THEN 0
    ELSE IF Len(xs) = 1 THEN xs[1]
    ELSE Suma(SubSeq(xs, 1, Len(xs) \div 2)) + Suma(SubSeq(xs, (Len(xs) \div 2) + 1, Len(xs)))

Minimo(xs) == CHOOSE x \in {xs[i] : i \in DOMAIN xs} : \A i \in DOMAIN xs : x <= xs[i]

Maximo(xs) == CHOOSE x \in {xs[i] : i \in DOMAIN xs} : \A i \in DOMAIN xs : x >= xs[i]

Emisiones(df) == [i \in DOMAIN df |-> df[i].Emisiones_tCO2eq]

DeActividad(df, actividad) == SelectSeq(df, LAMBDA fila : fila.Actividad = actividad)

\* sorted(df['Actividad'].unique()), which is also the group order of groupby.
ActividadesOrdenadas == <<"Agua", "Energia", "Residuos", "Transporte">>

Presentes(df) ==
    SelectSeq(ActividadesOrdenadas, LAMBDA a : \E i \in DOMAIN df : df[i].Actividad = a)

\* df.groupby('Actividad', as_index=False)['Emisiones_tCO2eq'].mean()
resumen_promedio(df) ==
    LET grupos == Presentes(df)
    IN  [k \in DOMAIN grupos |->
            LET grupo == Emisiones(DeActividad(df, grupos[k]))
            IN  [Actividad |-> grupos[k],
                 Emisiones_promedio_tCO2eq |-> Suma(grupo) \div Len(grupo)]]

\* The count, mean, min and max columns of describe().round(3); on an empty
\* selection the count is 0 and the other columns are NaN (left out).
describe(df_plot) ==
    LET xs == Emisiones(df_plot)
    IN  IF xs = <<>> THEN [count |-> 0]
        ELSE [count |-> Len(xs),
              mean |-> Round(Suma(xs) \div Len(xs), 3),
              min |-> Round(Minimo(xs), 3),
              max |-> Round(Maximo(xs), 3)]

CsvHeader ==
    <<"Actividad", "Emisiones_tCO2eq", "Reduccion_Potencial_%", "Costo_Ambiental_USD",
      "Categoria_Impacto", "Corrida">>

\* df.to_csv(buffer, index=False): the header line, then one line per row.
descarga_csv(df) ==
    <<CsvHeader>> \o
    [i \in DOMAIN df |->
        <<df[i].Actividad, df[i].Emisiones_tCO2eq, df[i].Reduccion_Potencial,
          df[i].Costo_Ambiental_USD, df[i].Categoria_Impacto, df[i].Corrida>>]

\* ------------------------------------------------------------------- state
VARIABLES
    rng,               \* state of the process-wide generator of module random
    session_state,     \* [has: 'df_sim' in st.session_state, df_sim]
    btn_simular,       \* the button's value in the last script run
    actividad_filtro,  \* the value of the "Filtrar por actividad" selectbox
    solicitud,         \* widget values read by the last run with the button pressed
    lista_dfs,         \* the script's lista_dfs in the last run
    corridas,          \* per run of the last pressed run: seed, DataFrame returned, draws
    df_global,         \* the script's df_global at the end of the last run
    prom,              \* resumen_promedio's result in the last run, or None
    stats,             \* the quick statistics of the last run, or None
    csv_bytes,         \* descarga_csv's result in the last run, or None
    mensajes           \* st.success / st.info / exception shown by the last run

vars ==
    <<rng, session_state, btn_simular, actividad_filtro, solicitud, lista_dfs, corridas,
      df_global, prom, stats, csv_bytes, mensajes>>

Ausente == [has |-> FALSE, df |-> <<>>]

\* A new session before the script's first run: nothing cached, nothing shown;
\* the generator is in the state the system's entropy gave it when imported.
Init ==
    /\ rng \in RandStates
    /\ session_state = Ausente
    /\ btn_simular = FALSE
    /\ actividad_filtro = "Todas"
    /\ solicitud = [dias |-> 30, seed |-> 0, num_corridas |-> 1, escenario |-> Base]
    /\ lista_dfs = <<>>
    /\ corridas = <<>>
    /\ df_global = Ausente
    /\ prom = None
    /\ stats = None
    /\ csv_bytes = None
    /\ mensajes = {}

\* ------------------------------------------------------- the script, 104-151
\* st.session_state['df_sim'] = df_global, with the new rows added to the old ones.
GuardarAcumulando(sesion, df) ==
    [has |-> TRUE, df |-> (IF sesion.has THEN sesion.df ELSE <<>>) \o df]

\* st.session_state['df_sim'] = df_global
Guardar(sesion, df) == [has |-> TRUE, df |-> df]

\* if 'df_sim' in st.session_state: df_global = st.session_state['df_sim']
DfGlobalFinal(local, sesion) == IF sesion.has THEN sesion ELSE local

\* The rendering branch taken unconditionally.
SiempreHayDatos(dfg) == TRUE

\* if df_global is not None
HayDatos(dfg) == dfg.has

\* The selectbox keeps its value while it is one of its options.
FiltroVigente(filtro, df) ==
    IF \E k \in DOMAIN Presentes(df) : Presentes(df)[k] = filtro THEN filtro ELSE "Todas"

\* Lines 104-151, given df_global as the button block left it and the session.
Presentar(local, sesion, filtro, avisos) ==
    \E dfg \in {DfGlobalFinal(local, sesion)} :
        /\ df_global' = dfg
        /\ IF HayDatos(dfg)
           THEN LET f == FiltroVigente(filtro, dfg.df)
                    df_plot == IF f # "Todas" THEN DeActividad(dfg.df, f) ELSE dfg.df
                IN  /\ prom' = Some(resumen_promedio(dfg.df))
                    /\ actividad_filtro' = f
                    /\ stats' = Some(describe(df_plot))
                    /\ csv_bytes' = Some(descarga_csv(dfg.df))
                    /\ mensajes' = avisos
           ELSE /\ prom' = None
                /\ actividad_filtro' = filtro
                /\ stats' = None
                /\ csv_bytes' = None
                /\ mensajes' = avisos \cup {"info"}

\* A script run with the button pressed.  (\E x \in {e} names the one value e.)
RerunSimular(dias, seed, num_corridas, escenario) ==
    \E st \in {BucleCorridas(0, num_corridas, dias, seed, escenario,
                            [rng |-> rng, lista_dfs |-> <<>>, corridas |-> <<>>])} :
        /\ btn_simular' = TRUE
        /\ solicitud' = [dias |-> dias, seed |-> seed, num_corridas |-> num_corridas,
                         escenario |-> escenario]
        /\ rng' = st.rng
        /\ lista_dfs' = st.lista_dfs
        /\ corridas' = st.corridas
        /\ IF st.lista_dfs = <<>>
           THEN \* pd.concat raises ValueError: the run stops at line 99
                /\ session_state' = session_state
                /\ df_global' = Ausente
                /\ mensajes' = {"ValueError"}
                /\ prom' = None
                /\ stats' = None
                /\ csv_bytes' = None
                /\ UNCHANGED actividad_filtro
           ELSE \E df \in {Concat(st.lista_dfs)} :
                \E sesion \in {Guardar(session_state, df)} :
                    /\ session_state' = sesion
                    /\ Presentar([has |-> TRUE, df |-> df], sesion, actividad_filtro, {"success"})

\* A script run caused by a change of the activity filter.
RerunFiltro(filtro) ==
    /\ HayDatos(df_global)
    /\ filtro # actividad_filtro
    /\ btn_simular' = FALSE
    /\ lista_dfs' = <<>>
    /\ Presentar(Ausente, session_state, filtro, {})
    /\ UNCHANGED <<rng, session_state, solicitud, corridas>>

\* A script run caused by anything else: the first load, a sidebar widget.
RerunSinBoton ==
    /\ btn_simular' = FALSE
    /\ lista_dfs' = <<>>
    /\ Presentar(Ausente, session_state, actividad_filtro, {})
    /\ UNCHANGED <<rng, session_state, solicitud, corridas>>

Filtros == {"Todas"} \cup {actividades[k] : k \in DOMAIN actividades}

\* The widgets' ranges: sliders from 1, number_input from 0, the three scenarios.
Next ==
    \/ \E dias \in 1 .. MaxDays, seed \in 0 .. MaxSeed, num_corridas \in 1 .. MaxRuns,
          escenario \in Escenarios : RerunSimular(dias, seed, num_corridas, escenario)
    \/ \E filtro \in Filtros : RerunFiltro(filtro)
    \/ RerunSinBoton

Spec == Init /\ [][Next]_vars

\* The same script given values no widget range holds back: the values at and
\* just below the sliders' minimum, and a scenario string that is not an option.
NextEngine ==
    \/ \E dias \in 0 .. 1, seed \in 0 .. MaxSeed, num_corridas \in 0 .. 1,
          escenario \in Escenarios \cup {"Otro"} :
            RerunSimular(dias, seed, num_corridas, escenario)
    \/ \E filtro \in Filtros : RerunFiltro(filtro)
    \/ RerunSinBoton

SpecEngine == Init /\ [][NextEngine]_vars

\* ================================================================ properties
\* The dataset the session holds, and where each of its rows comes from: row i
\* is pass PasadaDe(i) of run CorridaDe(i) of the aggregation that produced it.
Datos == session_state.df

PorCorrida == Len(actividades) * solicitud.dias

CorridaDe(i) == ((i - 1) \div PorCorrida) + 1

PasadaDe(i) == ((i - 1) % PorCorrida) + 1

Generada(i) == corridas[CorridaDe(i)].filas[PasadaDe(i)]

Sorteada(i) == corridas[CorridaDe(i)].emisiones[PasadaDe(i)]

\* The class limits as the specification states them.
ClaseSegunLimites(emision) ==
    IF emision < 40 * Unit THEN "Low" ELSE IF emision <= 90 * Unit THEN "Medium" ELSE "High"

Nombre(categoria) ==
    IF categoria = "Bajo" THEN "Low" ELSE IF categoria = "Medio" THEN "Medium" ELSE "High"

\* C1: in every row of an aggregated dataset, under every scenario, the cost
\* equals round(emission * 15, 2) of the emission stored in that row.
C1_CostoRecalculable ==
    session_state.has =>
        \A i \in DOMAIN Datos :
            Datos[i].Costo_Ambiental_USD = Round(Datos[i].Emisiones_tCO2eq * 15, 2)

\* C2: a pressed run with days < 1, num_runs < 1 or an unknown scenario is
\* rejected with an error before any run is simulated and yields no dataset;
\* every other pressed run succeeds.
C2_Invalida ==
    \/ solicitud.dias < 1
    \/ solicitud.num_corridas < 1
    \/ solicitud.escenario \notin Escenarios

C2_RechazoDeParametros ==
    btn_simular =>
        IF C2_Invalida
        THEN /\ "ValueError" \in mensajes
             /\ "success" \notin mensajes
             /\ corridas = <<>>
             /\ ~df_global.has
        ELSE /\ mensajes = {"success"}
             /\ df_global.has

\* C3: the dataset of an aggregation with a non-zero seed is the one the run
\* loop yields with the same widget values from every state the generator can
\* have been left in, and run r was seeded with seed + (r - 1).
C3_Repetida(g) ==
    Concat(BucleCorridas(0, solicitud.num_corridas, solicitud.dias, solicitud.seed,
                         solicitud.escenario,
                         [rng |-> g, lista_dfs |-> <<>>, corridas |-> <<>>]).lista_dfs)

C3_DeterminismoConSemilla ==
    (session_state.has /\ solicitud.seed # 0) =>
        /\ \A g \in RandStates : C3_Repetida(g) = Datos
        /\ Len(corridas) = solicitud.num_corridas
        /\ \A r \in DOMAIN corridas : corridas[r].seed = <<solicitud.seed + (r - 1)>>

C3_Witness ==
    /\ btn_simular
    /\ session_state.has
    /\ solicitud.seed # 0
    /\ solicitud.num_corridas >= 2
    /\ corridas[2].seed = <<solicitud.seed + 1>>
    /\ \E g \in RandStates : g # RandomSeed(solicitud.seed) /\ C3_Repetida(g) = Datos

\* C4: after a pressed run the dataset has num_runs * 4 * days rows, its run
\* indexes are exactly 1..num_runs, each labels 4 * days rows, the rows are in
\* run order and the rows of run r are that run's rows in their own order.
C4_Agregacion ==
    (btn_simular /\ session_state.has) =>
        /\ Len(Datos) = solicitud.num_corridas * 4 * solicitud.dias
        /\ {Datos[i].Corrida : i \in DOMAIN Datos} = 1 .. solicitud.num_corridas
        /\ \A r \in 1 .. solicitud.num_corridas :
              /\ Cardinality({i \in DOMAIN Datos : Datos[i].Corrida = r}) = 4 * solicitud.dias
              /\ SelectSeq(Datos, LAMBDA fila : fila.Corrida = r) = lista_dfs[r]
        /\ \A i, k \in DOMAIN Datos : i < k => Datos[i].Corrida <= Datos[k].Corrida

C4_Witness ==
    /\ btn_simular
    /\ session_state.has
    /\ solicitud.num_corridas = 2
    /\ solicitud.dias = 2
    /\ Len(Datos) = 16
    /\ Datos[8].Corrida = 1
    /\ Datos[9].Corrida = 2

\* C5: one run of the generator returns 4 * days rows, each activity days
\* times, all rows of Transporte first, then Energia, Residuos and Agua.
C5_UnaCorrida ==
    \A r \in DOMAIN corridas :
        LET filas == corridas[r].filas
        IN  /\ Len(filas) = 4 * solicitud.dias
            /\ \A k \in DOMAIN actividades :
                  Cardinality({j \in DOMAIN filas : filas[j].Actividad = actividades[k]})
                      = solicitud.dias
            /\ \A j \in DOMAIN filas :
                  filas[j].Actividad =
                      <<"Transporte", "Energia", "Residuos", "Agua">>[((j - 1) \div solicitud.dias) + 1]

C5_Witness ==
    /\ corridas # <<>>
    /\ solicitud.dias = 2
    /\ Len(corridas[1].filas) = 8
    /\ corridas[1].filas[2].Actividad = "Transporte"
    /\ corridas[1].filas[3].Actividad = "Energia"

\* C6: the scenario block leaves each emission as generated under Base, makes
\* it 0.85 times the generated one under Moderadas and 0.65 times under
\* Fuertes, and keeps activity, reduction, row count and row order.
C6_Escala ==
    IF solicitud.escenario = Moderadas THEN 85
    ELSE IF solicitud.escenario = Fuertes THEN 65 ELSE 100

C6_Escenario ==
    btn_simular =>
        \A r \in DOMAIN lista_dfs :
            /\ Len(lista_dfs[r]) = Len(corridas[r].filas)
            /\ \A j \in DOMAIN lista_dfs[r] :
                  /\ lista_dfs[r][j].Emisiones_tCO2eq * 100
                        = corridas[r].filas[j].Emisiones_tCO2eq * C6_Escala
                  /\ lista_dfs[r][j].Actividad = corridas[r].filas[j].Actividad
                  /\ lista_dfs[r][j].Reduccion_Potencial = corridas[r].filas[j].Reduccion_Potencial

C6_Witness ==
    /\ btn_simular
    /\ solicitud.escenario = Fuertes
    /\ lista_dfs # <<>>
    /\ lista_dfs[1][1].Emisiones_tCO2eq < corridas[1].filas[1].Emisiones_tCO2eq
    /\ lista_dfs[1][1].Emisiones_tCO2eq * 100 = corridas[1].filas[1].Emisiones_tCO2eq * 65

\* C7: in every row of the dataset, under every scenario, the category is the
\* class of the value the sampler drew and the one the row was generated with,
\* also where the rescaled emission belongs to another class.
C7_CategoriaDelSorteo ==
    session_state.has =>
        \A i \in DOMAIN Datos :
            /\ Nombre(Datos[i].Categoria_Impacto) = ClaseSegunLimites(Sorteada(i))
            /\ Datos[i].Categoria_Impacto = Generada(i).Categoria_Impacto

C7_Witness ==
    /\ session_state.has
    /\ solicitud.escenario = Fuertes
    /\ \E i \in DOMAIN Datos :
          /\ Datos[i].Categoria_Impacto = "Medio"
          /\ ClaseSegunLimites(Datos[i].Emisiones_tCO2eq) = "Low"

\* C8: a pressed run that completes replaces the cached dataset by its own
\* result; a run without the button, and a pressed run that fails, leave the
\* cached dataset as it was.
C8_CacheDeSesion ==
    [][IF btn_simular' /\ "success" \in mensajes'
       THEN session_state' = [has |-> TRUE, df |-> Concat(lista_dfs')]
       ELSE session_state' = session_state]_vars

C8_Witness ==
    /\ btn_simular
    /\ "ValueError" \in mensajes
    /\ session_state.has
    /\ Datos # <<>>

\* C9: every script run that ends with no dataset in the session and without
\* the button pressed computes no grouped means, no quick statistics and no
\* CSV, and shows the "no data" message.
C9_SinDatos ==
    [][(~session_state'.has /\ ~btn_simular') =>
          /\ prom' = None
          /\ stats' = None
          /\ csv_bytes' = None
          /\ mensajes' = {"info"}]_vars

C9_Witness ==
    /\ ~session_state.has
    /\ ~btn_simular
    /\ ~df_global.has
    /\ prom = None
    /\ mensajes = {"info"}

\* C10 as stated: under Base the category of every row is the class of the
\* emission stored in the row (the draw rounded to 3 decimals).
C10_CategoriaDelRedondeo ==
    (session_state.has /\ solicitud.escenario = Base) =>
        \A i \in DOMAIN Datos :
            Nombre(Datos[i].Categoria_Impacto) = ClaseSegunLimites(Datos[i].Emisiones_tCO2eq)

\* C10 as amended: under Base the category is the class of the stored emission
\* except where the stored emission is exactly 40.000 or 90.000: a draw below
\* 40 that rounds to 40.000 stays Bajo, one above 90 that rounds to 90.000
\* stays Alto.
C10_CategoriaSalvoLimite ==
    (session_state.has /\ solicitud.escenario = Base) =>
        \A i \in DOMAIN Datos :
            LET e == Datos[i].Emisiones_tCO2eq
                c == Datos[i].Categoria_Impacto
            IN  /\ e < 40 * Unit => c = "Bajo"
                /\ e = 40 * Unit => c \in {"Bajo", "Medio"}
                /\ (e > 40 * Unit /\ e < 90 * Unit) => c = "Medio"
                /\ e = 90 * Unit => c \in {"Medio", "Alto"}
                /\ e > 90 * Unit => c = "Alto"

C10_Witness ==
    /\ session_state.has
    /\ solicitud.escenario = Base
    /\ \E i \in DOMAIN Datos :
          /\ Datos[i].Emisiones_tCO2eq = 40 * Unit
          /\ Datos[i].Categoria_Impacto = "Bajo"
    /\ \E i \in DOMAIN Datos :
          /\ Datos[i].Emisiones_tCO2eq = 90 * Unit
          /\ Datos[i].Categoria_Impacto = "Alto"

====
